---- MODULE Spec2Model ----
(***************************************************************************)
(* Online learning platform server: the Express handlers over the courses  *)
(* and enrollments collections.  Two builds of the server are in the       *)
(* repository: the long-running server (src/index.js), which connects to   *)
(* the store once at startup and keeps the handles in globals, and the     *)
(* serverless build (src/unnamed/part_000), whose handlers first await     *)
(* connectDB(), a connection cached in cachedDb.  A handler is split into  *)
(* one action per store call it awaits.                                    *)
(***************************************************************************)
EXTENDS Integers, Sequences, FiniteSets, TLC

\* ------------------------------------------------------------------ bounds
\* requests issued in one behaviour of each workload
MaxRequests == 3
MaxIdRequests == 3
MaxCreateRequests == 3
MaxCourseRequests == 4
MaxHealthRequests == 3
MaxEnrollRequests == 4

\* the handlers that may be in progress at once
Procs == {1, 2}

\* ------------------------------------------------------- JSON body values
\* a value is its type and, by type, a text, a number or a boolean
Value(t, s, n, b) == [t |-> t, s |-> s, n |-> n, b |-> b]
Undef == Value("undef", "", 0, FALSE)
Null == Value("null", "", 0, FALSE)
Str(s) == Value("str", s, 0, FALSE)
Num(n) == Value("num", "", n, FALSE)
Bool(b) == Value("bool", "", 0, b)

\* JavaScript's !x on a body value
Falsy(x) ==
    \/ x.t \in {"undef", "null"}
    \/ x.t = "str" /\ x.s = ""
    \/ x.t = "num" /\ x.n = 0
    \/ x.t = "bool" /\ ~x.b

\* --------------------------------------------------------- identifiers
HexChars ==
    {"0", "1", "2", "3", "4", "5", "6", "7", "8", "9",
     "a", "b", "c", "d", "e", "f", "A", "B", "C", "D", "E", "F"}

Lower(ch) ==
    CASE ch = "A" -> "a" [] ch = "B" -> "b" [] ch = "C" -> "c"
      [] ch = "D" -> "d" [] ch = "E" -> "e" [] ch = "F" -> "f"
      [] OTHER -> ch

\* the text of an identifier: 23 zeros and a last character
Oid(ch) == [i \in 1..24 |-> IF i < 24 THEN "0" ELSE ch]

\* ObjectId.isValid on a text: 24 hexadecimal characters (the inputs here are
\* texts of 9 and 24 characters; a number or a 12-byte text is not among them)
isValid(s) == Len(s) = 24 /\ \A i \in 1..Len(s) : s[i] \in HexChars

\* new ObjectId(text): the identifier the text denotes (hex is case-blind)
ObjectId(s) == [i \in 1..Len(s) |-> Lower(s[i])]

\* the identifiers the store hands out, in order
IdPool == <<"a", "b", "c", "d", "e", "f">>

NoId == <<>>
BadShort == <<"n", "o", "t", "-", "a", "n", "-", "i", "d">>
BadNonHex == [i \in 1..24 |-> IF i < 24 THEN "0" ELSE "z"]
Malformed == {BadShort, BadNonHex}

\* ------------------------------------------------------------- inputs
Body(ti, pr, ca, fe, id) ==
    [title |-> ti, price |-> pr, category |-> ca, isFeatured |-> fe, _id |-> id]

EmptyBody == Body(Undef, Undef, Undef, Undef, Undef)

CourseInputs ==
    { Body(Str("Intro"), Num(10), Str("Dev"), Undef, Undef),
      Body(Str("Intro"), Num(10), Str("Dev"), Bool(TRUE), Undef),
      Body(Str("Free"), Num(0), Str("Dev"), Undef, Undef),
      Body(Undef, Num(10), Str("Dev"), Undef, Undef),
      Body(Str("Intro"), Null, Str("Dev"), Undef, Undef),
      Body(Str("Intro"), Num(10), Str(""), Undef, Undef) }

UpdateInputs ==
    { Body(Undef, Undef, Str("Art"), Undef, Undef),
      Body(Str("New"), Undef, Undef, Undef, Str("b")) }

Users == {"u1", "u2"}

Request(k, id, u, b) == [kind |-> k, id |-> id, user |-> u, body |-> b]

Valid == Body(Str("Intro"), Num(10), Str("Dev"), Undef, Undef)
SetCategory == Body(Undef, Undef, Str("Art"), Undef, Undef)
SetTitleAndId == Body(Str("New"), Undef, Undef, Undef, Str("b"))

\* every route, with an input for each way its handler answers
Requests ==
    {Request(k, NoId, "", EmptyBody) : k \in {"root", "health", "unmatched"}}
    \cup {Request("createCourse", NoId, "", b) :
            b \in {Valid, Body(Undef, Num(10), Str("Dev"), Undef, Undef)}}
    \cup {Request("listCourses", NoId, "", b) :
            b \in {EmptyBody, Body(Undef, Undef, Str("Dev"), Undef, Undef)}}
    \cup {Request(k, id, "", EmptyBody) :
            k \in {"getCourse", "deleteCourse"}, id \in {Oid("a"), BadShort}}
    \cup {Request("updateCourse", id, "", SetCategory) : id \in {Oid("a"), BadShort}}
    \cup {Request("enroll", Oid("a"), "u1", EmptyBody),
          Request("enroll", BadShort, "u1", EmptyBody),
          Request("enroll", NoId, "u1", EmptyBody)}
    \cup {Request("listEnrollments", NoId, u, EmptyBody) : u \in {"u1", ""}}

\* the routes that take an identifier, with well-formed and malformed ones
IdRequests ==
    {Request("createCourse", NoId, "", Valid)}
    \cup {Request(k, id, "", EmptyBody) :
            k \in {"getCourse", "deleteCourse"}, id \in {Oid("a")} \cup Malformed}
    \cup {Request("updateCourse", id, "", SetCategory) :
            id \in {Oid("a")} \cup Malformed}
    \cup {Request("enroll", id, "u1", EmptyBody) : id \in {Oid("a")} \cup Malformed}

\* creating courses and reading them back
CreateRequests ==
    {Request("createCourse", NoId, "", b) : b \in CourseInputs}
    \cup {Request("getCourse", id, "", EmptyBody) : id \in {Oid("a"), Oid("A"), Oid("b")}}

\* the life of a course: created, read, updated, deleted
CourseRequests ==
    {Request("createCourse", NoId, "", Valid)}
    \cup {Request(k, Oid("a"), "", EmptyBody) : k \in {"getCourse", "deleteCourse"}}
    \cup {Request("updateCourse", Oid("a"), "", b) : b \in UpdateInputs}
    \cup {Request("updateCourse", Oid("B"), "", SetCategory)}
    \cup {Request("enroll", Oid("a"), "u1", EmptyBody)}

\* enrolling, against the deletion of the course, and the joined view
EnrollRequests ==
    {Request("createCourse", NoId, "", Valid)}
    \cup {Request("deleteCourse", Oid("a"), "", EmptyBody)}
    \cup {Request("enroll", Oid("a"), u, EmptyBody) : u \in Users}
    \cup {Request("enroll", Oid("A"), "u1", EmptyBody)}
    \cup {Request("listEnrollments", NoId, "u1", EmptyBody)}

\* the connectivity probe among routes that do and do not use the store
HealthRequests ==
    {Request(k, NoId, "", EmptyBody) : k \in {"health", "root", "listCourses"}}

\* ---------------------------------------------------------------- state
VARIABLES
    build,        \* "server" (index.js) or "serverless" (part_000)
    alive,        \* the process runs (process.exit not called)
    storeUp,      \* the store accepts connections
    db,           \* index.js: db / coursesCollection / enrollmentsCollection set
    cachedDb,     \* part_000: cachedClient / cachedDb set
    clients,      \* store clients connected so far
    courses,      \* the courses collection
    enrollments,  \* the enrollments collection, in insertion order
    nextCourse,   \* identifiers the store has handed out to courses
    nextEnroll,   \* identifiers the store has handed out to enrollments
    issued,       \* requests arrived so far; also the clock new Date() reads
    req,          \* per handler: the request, its position and its locals
    out,          \* the response sent last, with the request it answers
    deletedIds    \* history: identifiers whose DELETE was answered 200

vars == <<build, alive, storeUp, db, cachedDb, clients, courses, enrollments,
          nextCourse, nextEnroll, issued, req, out, deletedIds>>

conn == <<build, alive, storeUp, db, cachedDb, clients>>
store == <<courses, enrollments, nextCourse, nextEnroll>>

None == [kind |-> "none", id |-> NoId, user |-> "", status |-> 0, solo |-> FALSE]

\* res.status(s).json({...}): the fields of the JSON object that are present
Resp(s, fs, ok, m, d) ==
    [status |-> s, fields |-> fs, success |-> ok, message |-> m, data |-> d]

NoResp == Resp(0, {}, FALSE, "", <<>>)

Fail(s, m) == Resp(s, {"success", "message"}, FALSE, m, <<>>)

\* a catch block whose object has no success field
CaughtBare(m) == Resp(500, {"message", "error"}, FALSE, m, <<>>)

\* the catch block of a handler
Caught(m) == Resp(500, {"success", "message", "error"}, FALSE, m, <<>>)

Idle ==
    [pc |-> "idle", kind |-> "none", id |-> NoId, user |-> "", body |-> EmptyBody,
     resp |-> NoResp, found |-> <<>>, items |-> <<>>,
     solo |-> FALSE, dirty |-> FALSE, delSeen |-> {}, prev |-> None]

InFlight(q) == req[q].pc # "idle"

Init ==
    /\ build \in {"server", "serverless"}
    /\ alive = TRUE
    /\ storeUp \in BOOLEAN
    /\ db = FALSE
    /\ cachedDb = FALSE
    /\ clients = 0
    /\ courses = {}
    /\ enrollments = <<>>
    /\ nextCourse = 0
    /\ nextEnroll = 0
    /\ issued = 0
    /\ req = [p \in Procs |-> Idle]
    /\ out = Idle
    /\ deletedIds = {}

\* ------------------------------------------------------------ the store
StoreFail ==
    /\ alive /\ storeUp
    /\ storeUp' = FALSE
    /\ UNCHANGED <<build, alive, db, cachedDb, clients, store, issued, req,
                   out, deletedIds>>

StoreRecover ==
    /\ alive /\ ~storeUp
    /\ storeUp' = TRUE
    /\ UNCHANGED <<build, alive, db, cachedDb, clients, store, issued, req,
                   out, deletedIds>>

\* coursesCollection.findOne({ _id: oid })
FindCourse(oid) == {c \in courses : c._id = oid}

\* enrollmentsCollection.findOne({ userEmail, courseId })
FindEnrollment(u, cid) ==
    {i \in 1..Len(enrollments) :
        enrollments[i].userEmail = u /\ enrollments[i].courseId = cid}

\* a find that forgets its filter
FindAnyUser(u) == enrollments

\* enrollmentsCollection.find({ userEmail }).toArray()
FindByUser(u) == SelectSeq(enrollments, LAMBDA e : e.userEmail = u)

\* an identifier drawn from the documents now in the collection
ReusedCourseId == Oid(IdPool[Cardinality(courses) + 1])

\* the identifier insertOne gives the next course
NewCourseId == Oid(IdPool[nextCourse + 1])

\* { $set: updateData } on one document
SetFields(doc, b) ==
    [f \in DOMAIN doc |->
        IF f \in DOMAIN b /\ b[f] # Undef
        THEN (IF f = "_id" THEN Oid(b[f].s) ELSE b[f])
        ELSE doc[f]]

\* the body with its _id left in
KeepId(b) == b

\* delete updateData._id
StripId(b) == [b EXCEPT !._id = Undef]

\* ---------------------------------------------------------- connection
\* index.js: connectDB() called once when the module loads
StartupConnect ==
    /\ build = "server" /\ alive /\ ~db
    /\ IF storeUp
       THEN /\ db' = TRUE
            /\ clients' = clients + 1
            /\ UNCHANGED alive
       ELSE /\ alive' = FALSE
            /\ UNCHANGED <<db, clients>>
    /\ UNCHANGED <<build, storeUp, cachedDb, store, issued, req, out, deletedIds>>

\* index.js reads the global collection handles; part_000 takes them from
\* the db connectDB() returned
HaveCollections == build = "serverless" \/ db

\* routes whose handler in part_000 starts with await connectDB()
UsesConnectDB(k) == k \notin {"root", "unmatched"}

\* the message of each handler's catch block
CatchMessage(k) ==
    CASE k = "createCourse" -> "Error creating course"
      [] k = "listCourses" -> "Error fetching courses"
      [] k = "getCourse" -> "Error fetching course"
      [] k = "updateCourse" -> "Error updating course"
      [] k = "deleteCourse" -> "Error deleting course"
      [] k = "enroll" -> "Error creating enrollment"
      [] k = "listEnrollments" -> "Error fetching enrollments"
      [] OTHER -> ""

\* ------------------------------------------------------ request bookkeeping
\* a write to the store is noted on every GET /enrollments in progress
\* besides p
Noted(p, wrote) ==
    [q \in Procs |->
        IF q # p /\ wrote /\ req[q].kind = "listEnrollments"
        THEN [req[q] EXCEPT !.dirty = TRUE]
        ELSE req[q]]

\* handler p answers with r and ends
Answer(p, r, wrote) ==
    /\ req' = [Noted(p, wrote) EXCEPT ![p] = Idle]
    /\ out' = [req[p] EXCEPT !.pc = "done", !.resp = r, !.found = <<>>,
                             !.items = <<>>]

\* handler p goes on to its next store call
Goto(p, pc) ==
    /\ req' = [req EXCEPT ![p].pc = pc]
    /\ UNCHANGED out

\* what a request arriving now finds completed last
Last ==
    [kind |-> out.kind, id |-> out.id, user |-> out.user,
     status |-> out.resp.status, solo |-> out.solo]

\* a request arrives and its handler starts
Arrive(p, workload, max) ==
    /\ alive
    /\ issued < max
    /\ ~InFlight(p)
    /\ \A q \in Procs : q < p => InFlight(q)
    /\ \E r \in workload :
        req' = [q \in Procs |->
                  IF q = p
                  THEN [pc |-> IF build = "serverless" /\ UsesConnectDB(r.kind)
                                  /\ ~cachedDb
                               THEN "connect" ELSE "body",
                        kind |-> r.kind, id |-> r.id, user |-> r.user,
                        body |-> r.body, resp |-> NoResp,
                        found |-> <<>>, items |-> <<>>,
                        solo |-> /\ r.kind = "enroll"
                                 /\ \A o \in Procs \ {p} : ~InFlight(o),
                        dirty |-> FALSE,
                        delSeen |-> IF r.kind = "listEnrollments" THEN deletedIds
                                    ELSE IF isValid(r.id)
                                    THEN deletedIds \cap {ObjectId(r.id)}
                                    ELSE {},
                        prev |-> IF r.kind = "enroll" THEN Last ELSE None]
                  ELSE IF InFlight(q) THEN [req[q] EXCEPT !.solo = FALSE]
                  ELSE req[q]]
    /\ issued' = issued + 1
    /\ UNCHANGED <<conn, store, out, deletedIds>>

\* part_000 connectDB(): client.connect() settles
ConnectDone(p) ==
    /\ alive /\ req[p].pc = "connect"
    /\ IF storeUp
       THEN /\ cachedDb' = TRUE
            /\ clients' = clients + 1
            /\ Goto(p, "body")
       ELSE /\ UNCHANGED <<cachedDb, clients>>
            /\ IF req[p].kind = "health"
               THEN Answer(p, Resp(500, {"status", "database", "error"}, FALSE,
                                   "", <<>>), FALSE)
               ELSE Answer(p, Caught(CatchMessage(req[p].kind)), FALSE)
    /\ UNCHANGED <<build, alive, storeUp, db, store, issued, deletedIds>>

At(p, k) == alive /\ req[p].pc = "body" /\ req[p].kind = k

\* ------------------------------------------------------------- handlers
Root(p) ==
    /\ At(p, "root")
    /\ Answer(p, Resp(200, {"success", "message", "timestamp"}, TRUE,
                      "Online Learning Platform Server is running successfully!",
                      <<>>), FALSE)
    /\ UNCHANGED <<conn, store, issued, deletedIds>>

Health(p) ==
    /\ At(p, "health")
    /\ Answer(p, Resp(200, {"status", "timestamp", "uptime", "database"}, FALSE,
                      "", <<>>), FALSE)
    /\ UNCHANGED <<conn, store, issued, deletedIds>>

Unmatched(p) ==
    /\ At(p, "unmatched")
    /\ Answer(p, Resp(404, {"success", "message", "path"}, FALSE,
                      "Route not found", <<>>), FALSE)
    /\ UNCHANGED <<conn, store, issued, deletedIds>>

\* POST /courses: the defaults the handler fills in before insertOne
WithDefaults(b) ==
    IF b.isFeatured = Undef THEN [b EXCEPT !.isFeatured = Bool(FALSE)] ELSE b

\* POST /courses: the validation
MissingRequired(b) == Falsy(b.title) \/ Falsy(b.price) \/ Falsy(b.category)

CreateCourse(p) ==
    /\ At(p, "createCourse")
    /\ LET b == req[p].body IN
       IF MissingRequired(b)
       THEN /\ Answer(p, Fail(400, "Missing required fields"), FALSE)
            /\ UNCHANGED store
       ELSE IF ~HaveCollections
       THEN /\ Answer(p, Caught("Error creating course"), FALSE)
            /\ UNCHANGED store
       ELSE /\ courses' = courses \cup {[WithDefaults(b) EXCEPT !._id = NewCourseId]}
            /\ nextCourse' = nextCourse + 1
            /\ Answer(p, Resp(201, {"success", "message", "courseId"}, TRUE,
                              "Course created successfully", NewCourseId), TRUE)
            /\ UNCHANGED <<enrollments, nextEnroll>>
    /\ UNCHANGED <<conn, issued, deletedIds>>

ListCourses(p) ==
    /\ At(p, "listCourses")
    /\ LET category == req[p].body.category
           data == IF Falsy(category) THEN courses
                   ELSE {c \in courses : c.category = category} IN
       IF ~HaveCollections
       THEN Answer(p, Caught("Error fetching courses"), FALSE)
       ELSE Answer(p, Resp(200, {"success", "count", "data"}, TRUE, "",
                           [count |-> Cardinality(data), data |-> data]), FALSE)
    /\ UNCHANGED <<conn, store, issued, deletedIds>>

GetCourse(p) ==
    /\ At(p, "getCourse")
    /\ LET id == req[p].id IN
       IF ~isValid(id)
       THEN Answer(p, Fail(400, "Invalid course ID format"), FALSE)
       ELSE IF ~HaveCollections
       THEN Answer(p, Caught("Error fetching course"), FALSE)
       ELSE IF FindCourse(ObjectId(id)) = {}
       THEN Answer(p, Fail(404, "Course not found"), FALSE)
       ELSE Answer(p, Resp(200, {"success", "data"}, TRUE, "",
                           CHOOSE c \in FindCourse(ObjectId(id)) : TRUE), FALSE)
    /\ UNCHANGED <<conn, store, issued, deletedIds>>

UpdateCourse(p) ==
    /\ At(p, "updateCourse")
    /\ LET id == req[p].id
           updateData == StripId(req[p].body) IN
       IF ~isValid(id)
       THEN /\ Answer(p, Fail(400, "Invalid course ID format"), FALSE)
            /\ UNCHANGED courses
       ELSE IF ~HaveCollections
       THEN /\ Answer(p, Caught("Error updating course"), FALSE)
            /\ UNCHANGED courses
       ELSE IF FindCourse(ObjectId(id)) = {}
       THEN /\ Answer(p, Fail(404, "Course not found"), FALSE)
            /\ UNCHANGED courses
       ELSE LET old == CHOOSE c \in FindCourse(ObjectId(id)) : TRUE
                new == SetFields(old, updateData) IN
            /\ courses' = (courses \ {old}) \cup {new}
            /\ Answer(p, Resp(200, {"success", "message", "modifiedCount"}, TRUE,
                              "Course updated successfully",
                              IF new = old THEN 0 ELSE 1), TRUE)
    /\ UNCHANGED <<conn, enrollments, nextCourse, nextEnroll, issued, deletedIds>>

\* a DELETE that also removes the enrollments of the course
DeleteCourseCascade(p) ==
    /\ At(p, "deleteCourse")
    /\ LET id == req[p].id IN
       IF ~isValid(id)
       THEN /\ Answer(p, Fail(400, "Invalid course ID format"), FALSE)
            /\ UNCHANGED <<courses, enrollments, deletedIds>>
       ELSE IF ~HaveCollections
       THEN /\ Answer(p, Caught("Error deleting course"), FALSE)
            /\ UNCHANGED <<courses, enrollments, deletedIds>>
       ELSE IF FindCourse(ObjectId(id)) = {}
       THEN /\ Answer(p, Fail(404, "Course not found"), FALSE)
            /\ UNCHANGED <<courses, enrollments, deletedIds>>
       ELSE /\ courses' = courses \ FindCourse(ObjectId(id))
            /\ enrollments' = SelectSeq(enrollments,
                                        LAMBDA e : ObjectId(e.courseId) # ObjectId(id))
            /\ deletedIds' = deletedIds \cup {ObjectId(id)}
            /\ Answer(p, Resp(200, {"success", "message"}, TRUE,
                              "Course deleted successfully", <<>>), TRUE)
    /\ UNCHANGED <<conn, nextCourse, nextEnroll, issued>>

DeleteCourse(p) ==
    /\ At(p, "deleteCourse")
    /\ LET id == req[p].id IN
       IF ~isValid(id)
       THEN /\ Answer(p, Fail(400, "Invalid course ID format"), FALSE)
            /\ UNCHANGED <<courses, deletedIds>>
       ELSE IF ~HaveCollections
       THEN /\ Answer(p, Caught("Error deleting course"), FALSE)
            /\ UNCHANGED <<courses, deletedIds>>
       ELSE IF FindCourse(ObjectId(id)) = {}
       THEN /\ Answer(p, Fail(404, "Course not found"), FALSE)
            /\ UNCHANGED <<courses, deletedIds>>
       ELSE /\ courses' = courses \ FindCourse(ObjectId(id))
            /\ deletedIds' = deletedIds \cup {ObjectId(id)}
            /\ Answer(p, Resp(200, {"success", "message"}, TRUE,
                              "Course deleted successfully", <<>>), TRUE)
    /\ UNCHANGED <<conn, enrollments, nextCourse, nextEnroll, issued>>

\* POST /enrollments up to the lookup of the course
EnrollFindCourse(p) ==
    /\ At(p, "enroll")
    /\ LET userEmail == req[p].user
           courseId == req[p].id IN
       IF userEmail = "" \/ courseId = NoId
       THEN Answer(p, Fail(400, "userEmail and courseId are required"), FALSE)
       ELSE IF ~isValid(courseId)
       THEN Answer(p, Fail(400, "Invalid course ID format"), FALSE)
       ELSE IF ~HaveCollections
       THEN Answer(p, Caught("Error creating enrollment"), FALSE)
       ELSE IF FindCourse(ObjectId(courseId)) = {}
       THEN Answer(p, Fail(404, "Course not found"), FALSE)
       ELSE Goto(p, "existing")
    /\ UNCHANGED <<conn, store, issued, deletedIds>>

\* POST /enrollments without the lookup of an enrollment of the same pair
EnrollSkipExisting(p) ==
    /\ alive /\ req[p].pc = "existing"
    /\ Goto(p, "insert")
    /\ UNCHANGED <<conn, store, issued, deletedIds>>

\* POST /enrollments: the lookup of an enrollment of the same pair
EnrollFindExisting(p) ==
    /\ alive /\ req[p].pc = "existing"
    /\ IF FindEnrollment(req[p].user, req[p].id) # {}
       THEN Answer(p, Fail(400, "User already enrolled in this course"), FALSE)
       ELSE Goto(p, "insert")
    /\ UNCHANGED <<conn, store, issued, deletedIds>>

\* POST /enrollments: insertOne(enrollmentData)
EnrollInsert(p) ==
    /\ alive /\ req[p].pc = "insert"
    /\ enrollments' = Append(enrollments,
                             [_id |-> nextEnroll + 1, userEmail |-> req[p].user,
                              courseId |-> req[p].id, enrolledAt |-> issued])
    /\ nextEnroll' = nextEnroll + 1
    /\ Answer(p, Resp(201, {"success", "message", "enrollmentId"}, TRUE,
                      "Enrollment successful", nextEnroll + 1), TRUE)
    /\ UNCHANGED <<conn, courses, nextCourse, issued, deletedIds>>

\* the answer of GET /enrollments
Joined(items) ==
    Resp(200, {"success", "count", "data"}, TRUE, "",
         [count |-> Len(items), data |-> items])

\* GET /enrollments up to the find of the user's enrollments
ListEnrollFind(p) ==
    /\ At(p, "listEnrollments")
    /\ LET userEmail == req[p].user IN
       IF userEmail = ""
       THEN Answer(p, Fail(400, "userEmail query parameter is required"), FALSE)
       ELSE IF ~HaveCollections
       THEN Answer(p, Caught("Error fetching enrollments"), FALSE)
       ELSE IF FindByUser(userEmail) = <<>>
       THEN Answer(p, Joined(<<>>), FALSE)
       ELSE /\ req' = [req EXCEPT ![p].pc = "lookup",
                                  ![p].found = FindByUser(userEmail)]
            /\ UNCHANGED out
    /\ UNCHANGED <<conn, store, issued, deletedIds>>

\* one enrollment and the course found for it
Item(enrollment, course) ==
    [enrollmentId |-> enrollment._id, userEmail |-> enrollment.userEmail,
     enrolledAt |-> enrollment.enrolledAt, course |-> course]

\* GET /enrollments: one turn of the loop, the lookup of one course
ListEnrollLookup(p) ==
    /\ alive /\ req[p].pc = "lookup"
    /\ LET enrollment == Head(req[p].found)
           found == FindCourse(ObjectId(enrollment.courseId))
           items == IF found = {} THEN req[p].items
                    ELSE Append(req[p].items,
                                Item(enrollment, CHOOSE c \in found : TRUE)) IN
       IF Tail(req[p].found) = <<>>
       THEN Answer(p, Joined(items), FALSE)
       ELSE /\ req' = [req EXCEPT ![p].found = Tail(req[p].found),
                                  ![p].items = items]
            /\ UNCHANGED out
    /\ UNCHANGED <<conn, store, issued, deletedIds>>

Env == StoreFail \/ StoreRecover \/ StartupConnect

Next ==
    \/ Env
    \/ \E p \in Procs : Arrive(p, Requests, MaxRequests)
    \/ \E p \in Procs : ConnectDone(p)
    \/ \E p \in Procs : Root(p)
    \/ \E p \in Procs : Health(p)
    \/ \E p \in Procs : Unmatched(p)
    \/ \E p \in Procs : CreateCourse(p)
    \/ \E p \in Procs : ListCourses(p)
    \/ \E p \in Procs : GetCourse(p)
    \/ \E p \in Procs : UpdateCourse(p)
    \/ \E p \in Procs : DeleteCourse(p)
    \/ \E p \in Procs : EnrollFindCourse(p)
    \/ \E p \in Procs : EnrollFindExisting(p)
    \/ \E p \in Procs : EnrollInsert(p)
    \/ \E p \in Procs : ListEnrollFind(p)
    \/ \E p \in Procs : ListEnrollLookup(p)

Spec == Init /\ [][Next]_vars

NextIds ==
    \/ Env
    \/ \E p \in Procs : Arrive(p, IdRequests, MaxIdRequests)
    \/ \E p \in Procs : ConnectDone(p)
    \/ \E p \in Procs : CreateCourse(p)
    \/ \E p \in Procs : GetCourse(p)
    \/ \E p \in Procs : UpdateCourse(p)
    \/ \E p \in Procs : DeleteCourse(p)
    \/ \E p \in Procs : EnrollFindCourse(p)
    \/ \E p \in Procs : EnrollFindExisting(p)
    \/ \E p \in Procs : EnrollInsert(p)

SpecIds == Init /\ [][NextIds]_vars

NextCreate ==
    \/ Env
    \/ \E p \in Procs : Arrive(p, CreateRequests, MaxCreateRequests)
    \/ \E p \in Procs : ConnectDone(p)
    \/ \E p \in Procs : CreateCourse(p)
    \/ \E p \in Procs : GetCourse(p)

SpecCreate == Init /\ [][NextCreate]_vars

NextCourse ==
    \/ Env
    \/ \E p \in Procs : Arrive(p, CourseRequests, MaxCourseRequests)
    \/ \E p \in Procs : ConnectDone(p)
    \/ \E p \in Procs : CreateCourse(p)
    \/ \E p \in Procs : GetCourse(p)
    \/ \E p \in Procs : UpdateCourse(p)
    \/ \E p \in Procs : DeleteCourse(p)
    \/ \E p \in Procs : EnrollFindCourse(p)
    \/ \E p \in Procs : EnrollFindExisting(p)
    \/ \E p \in Procs : EnrollInsert(p)

SpecCourse == Init /\ [][NextCourse]_vars

NextEnroll ==
    \/ Env
    \/ \E p \in Procs : Arrive(p, EnrollRequests, MaxEnrollRequests)
    \/ \E p \in Procs : ConnectDone(p)
    \/ \E p \in Procs : CreateCourse(p)
    \/ \E p \in Procs : DeleteCourse(p)
    \/ \E p \in Procs : EnrollFindCourse(p)
    \/ \E p \in Procs : EnrollFindExisting(p)
    \/ \E p \in Procs : EnrollInsert(p)
    \/ \E p \in Procs : ListEnrollFind(p)
    \/ \E p \in Procs : ListEnrollLookup(p)

SpecEnroll == Init /\ [][NextEnroll]_vars

NextHealth ==
    \/ Env
    \/ \E p \in Procs : Arrive(p, HealthRequests, MaxHealthRequests)
    \/ \E p \in Procs : ConnectDone(p)
    \/ \E p \in Procs : Root(p)
    \/ \E p \in Procs : Health(p)
    \/ \E p \in Procs : ListCourses(p)

SpecHealth == Init /\ [][NextHealth]_vars

\* ------------------------------------------------------------- claims
\* handler p sends its response in this step
Answers(p) == req[p].pc # "idle" /\ req'[p].pc = "idle"

Answered(k) == out.pc = "done" /\ out.kind = k

IdRoutes == {"getCourse", "updateCourse", "deleteCourse"}

\* C1: the enrollments collection never holds two enrollments of the same
\* (userEmail, courseId) pair, however the requests interleave.
C1_OneEnrollmentPerPair ==
    \A i, j \in 1..Len(enrollments) :
        (/\ enrollments[i].userEmail = enrollments[j].userEmail
         /\ enrollments[i].courseId = enrollments[j].courseId) => i = j

\* C2: an enrollment is inserted only while the course its courseId names is
\* in the store, and an Enroll whose courseId names no course answers 404
\* 'Course not found' and inserts nothing.
C2_EnrollOnlyExistingCourse ==
    [][/\ Len(enrollments') > Len(enrollments) =>
            FindCourse(ObjectId(enrollments'[Len(enrollments')].courseId)) # {}
       /\ \A p \in Procs :
            (/\ req[p].pc = "body" /\ req[p].kind = "enroll" /\ Answers(p)
             /\ req[p].user # "" /\ isValid(req[p].id) /\ HaveCollections
             /\ FindCourse(ObjectId(req[p].id)) = {})
            => /\ out'.resp.status = 404
               /\ out'.resp.message = "Course not found"
               /\ enrollments' = enrollments]_vars

\* C3: a request with a malformed identifier to GET, PUT or DELETE
\* /courses/:id, or to POST /enrollments with a userEmail, is answered 400
\* 'Invalid course ID format' whatever the store holds and whether or not it
\* can be reached, and changes neither collection.
C3_MalformedIdIs400 ==
    [][\A p \in Procs :
        (/\ Answers(p)
         /\ req[p].kind \in IdRoutes \/ (req[p].kind = "enroll" /\ req[p].user # "")
         /\ req[p].id \in Malformed)
        => /\ out'.resp.status = 400
           /\ out'.resp.message = "Invalid course ID format"
           /\ courses' = courses /\ enrollments' = enrollments]_vars

\* title, price or category absent, null or the empty text
MissingField(b) ==
    \E x \in {b.title, b.price, b.category} :
        x.t \in {"undef", "null"} \/ x = Str("")

\* C4: POST /courses with title, price or category missing, null or empty is
\* answered 400 and leaves the courses collection as it was.
C4_MissingFieldIs400 ==
    [][\A p \in Procs :
        (Answers(p) /\ req[p].kind = "createCourse" /\ MissingField(req[p].body))
        => out'.resp.status = 400 /\ courses' = courses]_vars

\* title and category a non-empty text, price a number
PresentFields(b) ==
    /\ b.title.t = "str" /\ b.title.s # ""
    /\ b.price.t = "num"
    /\ b.category.t = "str" /\ b.category.s # ""

\* C5: POST /courses with title, price and category present (any numeric
\* price) inserts exactly one record, the input with a new identifier and
\* isFeatured false when omitted, and answers 201 with that identifier; GET
\* /courses/:id answered 200 returns the stored record of that identifier.
C5_CreateRoundTrip ==
    [][\A p \in Procs :
        /\ (/\ req[p].pc = "body" /\ req[p].kind = "createCourse" /\ Answers(p)
             /\ PresentFields(req[p].body) /\ HaveCollections)
            => /\ out'.resp.status = 201
               /\ \E c \in courses' :
                    /\ courses' = courses \cup {c}
                    /\ \A d \in courses : d._id # c._id
                    /\ c._id = out'.resp.data
                    /\ c.title = req[p].body.title
                    /\ c.price = req[p].body.price
                    /\ c.category = req[p].body.category
                    /\ c.isFeatured = IF req[p].body.isFeatured = Undef
                                      THEN Bool(FALSE) ELSE req[p].body.isFeatured
        /\ (/\ req[p].pc = "body" /\ req[p].kind = "getCourse" /\ Answers(p)
             /\ out'.resp.status = 200)
            => /\ out'.resp.data \in courses
               /\ out'.resp.data._id = ObjectId(req[p].id)]_vars

\* the second of two Enroll requests of the same pair, the first answered
\* 201, neither overlapping any other request and none between them
SecondEnroll ==
    /\ Answered("enroll") /\ out.solo
    /\ out.prev.kind = "enroll" /\ out.prev.solo /\ out.prev.status = 201
    /\ out.prev.user = out.user /\ out.prev.id = out.id

\* C6: an Enroll(u, c) issued after an Enroll(u, c) was answered 201, with no
\* other request in between, is answered 400 'User already enrolled in this
\* course', and the store holds exactly one enrollment of (u, c).
C6_SecondEnrollIsDuplicate ==
    SecondEnroll =>
        /\ out.resp.status = 400
        /\ out.resp.message = "User already enrolled in this course"
        /\ Cardinality(FindEnrollment(out.user, out.id)) = 1

C6_Witness ==
    SecondEnroll /\ out.resp.status = 400 /\ Len(enrollments) = 1

DataFields == {"title", "price", "category", "isFeatured"}

\* C7: PUT /courses/:id answered 200 replaces in that course exactly the
\* fields the body gives, keeps its identifier even when the body has an _id,
\* and leaves every other course and every enrollment as it was.
C7_UpdateChangesGivenFields ==
    [][\A p \in Procs :
        (/\ req[p].pc = "body" /\ req[p].kind = "updateCourse" /\ Answers(p)
         /\ out'.resp.status = 200)
        => /\ \E old \in courses, new \in courses' :
                /\ old._id = ObjectId(req[p].id)
                /\ new._id = old._id
                /\ \A f \in DataFields :
                     new[f] = IF req[p].body[f] # Undef THEN req[p].body[f]
                              ELSE old[f]
                /\ courses' \ {new} = courses \ {old}
           /\ enrollments' = enrollments]_vars

C7_Witness ==
    /\ Answered("updateCourse") /\ out.resp.status = 200
    /\ out.body._id # Undef
    /\ \E c \in courses : c._id = ObjectId(out.id) /\ c.title = Str("New")
    /\ \E c \in courses : c._id # ObjectId(out.id)
    /\ enrollments # <<>>

\* C8: DELETE /courses/:id with a well-formed identifier, once the handler
\* has its collection, answers 200 and removes exactly that course when it
\* is in the store and answers 404 otherwise; and every DELETE, GET or PUT
\* of an identifier that arrives after that identifier's DELETE was answered
\* 200 is answered 404.
C8_DeleteThenNotFound ==
    [][/\ \A p \in Procs :
            (/\ req[p].pc = "body" /\ req[p].kind = "deleteCourse" /\ Answers(p)
             /\ isValid(req[p].id) /\ HaveCollections)
            => IF \E c \in courses : c._id = ObjectId(req[p].id)
               THEN /\ out'.resp.status = 200
                    /\ courses' = {c \in courses : c._id # ObjectId(req[p].id)}
                    /\ Cardinality(courses') = Cardinality(courses) - 1
               ELSE /\ out'.resp.status = 404
                    /\ courses' = courses
       /\ (out'.pc = "done" /\ out'.kind \in IdRoutes /\ out'.delSeen # {})
            => out'.resp.status = 404]_vars

C8_Witness ==
    /\ Answered("getCourse") /\ ObjectId(out.id) \in out.delSeen
    /\ out.resp.status = 404
    /\ courses # {}

\* the enrollments of u whose course is in the store, in the store's order
Joinable(u) ==
    SelectSeq(enrollments,
              LAMBDA e : e.userEmail = u /\ FindCourse(ObjectId(e.courseId)) # {})

\* C9: GET /enrollments?userEmail=u answered 200 returns only items of
\* enrollments of u, each with the course its enrollment names, none of a
\* course deleted before the request arrived, and a count equal to the
\* number of items; when no write overlaps the request, the items are those
\* of exactly the enrollments of u whose course is in the store.
C9_ListByUser ==
    [][\A p \in Procs :
        (/\ req[p].kind = "listEnrollments" /\ Answers(p)
         /\ out'.resp.status = 200)
        => LET items == out'.resp.data.data
               u == req[p].user IN
           /\ out'.resp.data.count = Len(items)
           /\ \A k \in 1..Len(items) :
                /\ items[k].userEmail = u
                /\ items[k].course._id \notin req[p].delSeen
                /\ \E i \in 1..Len(enrollments) :
                     /\ enrollments[i]._id = items[k].enrollmentId
                     /\ enrollments[i].userEmail = u
                     /\ enrollments[i].enrolledAt = items[k].enrolledAt
                     /\ items[k].course._id = ObjectId(enrollments[i].courseId)
           /\ ~req[p].dirty =>
                /\ Len(items) = Len(Joinable(u))
                /\ \A k \in 1..Len(items) :
                     /\ items[k].enrollmentId = Joinable(u)[k]._id
                     /\ items[k].course \in courses]_vars

C9_Witness ==
    /\ Answered("listEnrollments") /\ out.resp.status = 200
    /\ out.delSeen # {}
    /\ FindByUser(out.user) # <<>>
    /\ out.resp.data.count = 0

Failure == {400, 404, 500}

\* C10 as stated: every response, those of /health included, is an object
\* with a boolean success, false with a message on 400, 404 and 500.
C10_EveryResponseHasSuccess ==
    out.pc = "done" =>
        /\ "success" \in out.resp.fields
        /\ out.resp.status \in Failure =>
             ~out.resp.success /\ "message" \in out.resp.fields

\* C10 amended: every response of every route but /health is an object with
\* a boolean success, false with a message on 400, 404 and 500; a response
\* of /health has status and database and neither success nor message.
C10_ResponseEnvelope ==
    out.pc = "done" =>
        IF out.kind = "health"
        THEN /\ {"status", "database"} \subseteq out.resp.fields
             /\ out.resp.fields \cap {"success", "message"} = {}
        ELSE /\ "success" \in out.resp.fields
             /\ out.resp.status \in Failure =>
                  /\ ~out.resp.success
                  /\ "message" \in out.resp.fields /\ out.resp.message # ""
             /\ out.resp.status \notin Failure => out.resp.success

C10_Witness ==
    /\ out.pc = "done" /\ out.kind \notin {"health", "root", "unmatched"}
    /\ out.resp.status = 500
\* C11: GET /health is answered 200 while the store can be reached and 500
\* while it cannot, and the process goes on running after the answer.
C11_HealthReportsStore ==
    [][\A p \in Procs :
        (Answers(p) /\ req[p].kind = "health")
        => /\ out'.resp.status = IF storeUp THEN 200 ELSE 500
           /\ alive']_vars

\* C12: at most one store client is ever connected, however the requests
\* arrive and interleave.
C12_OneClient == clients <= 1

\* C13: every step leaves each enrollment in the store as it was, with its
\* identifier, userEmail, courseId and enrolledAt, and in its place: the
\* collection only grows, whatever happens to the courses.
C13_EnrollmentsOnlyGrow ==
    [][/\ Len(enrollments') >= Len(enrollments)
       /\ \A i \in 1..Len(enrollments) : enrollments'[i] = enrollments[i]]_vars

C13_Witness ==
    /\ Answered("deleteCourse") /\ out.resp.status = 200
    /\ enrollments # <<>>
    /\ FindCourse(ObjectId(enrollments[1].courseId)) = {}
====
